---- MODULE Spec2Model ----
(***************************************************************************)
(* TicketWise: a model of                                                  *)
(*   - the host-channel session kept by the useHostedApi hook and the Pod  *)
(*     component that consumes it (postMessage handshake with the          *)
(*     ConnectWise parent window),                                         *)
(*   - the per-member rate limiter and the /similar path of processChat,   *)
(*   - the note selection of formatSimilarTicketsWithNotes.                *)
(* Each part has its own specification (Spec, SpecChat, SpecNotes); the    *)
(* variables of the other parts stay at their initial values.              *)
(***************************************************************************)
EXTENDS Integers, Sequences, FiniteSets, TLC

VARIABLES
  \* ---- useHostedApi / Pod ----
  inFrame,             \* window !== window.parent
  mounted,             \* "init" (rendered, effects not run), "live", "gone"
  isReady,             \* useState isReady
  frameId,             \* useState frameId
  frameIdRef,          \* frameIdRef.current
  auth,                \* useState auth
  screenObject,        \* useState screenObject
  parentOriginRef,     \* parentOriginRef.current
  messageListenerRef,  \* messageListenerRef.current is set
  listeners,           \* number of message listeners of the hook on window
  posted,              \* messages posted to window.parent by the last step
  fired,               \* option callbacks invoked by the last step
  handled,             \* origin and branch of the message the last step handled
  isAuthenticated,     \* Pod useState isAuthenticated
  authError,           \* Pod useState authError
  cookiePending,       \* setAuthCookies calls awaited by Pod.handleAuth
  requestEffectDue,    \* Pod's request effect has changed dependencies
  retried,             \* history: Retry was pressed on an invalid-data error
  cookiesSet,          \* history: a setAuthCookies call has returned without error
  inflight,            \* the messages the host has sent and those delivered
  \* ---- processChat ----
  now,                 \* Date.now(), in milliseconds
  rateLimitMap,        \* rateLimitMap: member -> entry
  turn,                \* the chat turn the last step performed
  window,              \* history: per identifier, the start of its current
                       \* rate window, the turns accepted in it, and
                       \* whether it replaced an earlier window
  \* ---- Chat ----
  messages,            \* Chat useState messages
  isLoading,           \* Chat useState isLoading
  error,               \* Chat useState error
  \* ---- formatSimilarTicketsWithNotes ----
  source,              \* where the note collection comes from
  notes,               \* the notes of one ticket passed to the formatter
  evidence,            \* the notes the formatter emits for that ticket
  emitted              \* what it writes of each of them: text and marker

hostVars == <<inFrame, mounted, isReady, frameId, frameIdRef, auth,
              screenObject, parentOriginRef, messageListenerRef, listeners,
              posted, fired, handled, isAuthenticated, authError,
              cookiePending, requestEffectDue, retried, cookiesSet,
              inflight>>
uiVars == <<messages, isLoading, error>>
chatVars == <<now, rateLimitMap, turn, window, uiVars>>
noteVars == <<source, notes, evidence, emitted>>
vars == <<hostVars, chatVars, noteVars>>

(***************************************************************************)
(* Values                                                                  *)
(***************************************************************************)
Null == "null"            \* JavaScript null
Undefined == "undefined"  \* JavaScript undefined / missing property
NoOrigin == <<>>          \* parentOriginRef.current === null
Wildcard == <<"*">>       \* targetOrigin "*"

\* An origin is a string; it is kept as the sequence of the pieces it is
\* made of, so that String.prototype.startsWith is a prefix test.
ALLOWED_ORIGINS ==
  { <<"https://eu.myconnectwise.net">>,
    <<"https://na.myconnectwise.net">>,
    <<"https://au.myconnectwise.net">>,
    <<"https://staging.connectwisedev.com">> }

StartsWith(s, p) == Len(p) <= Len(s) /\ SubSeq(s, 1, Len(p)) = p

\* ALLOWED_ORIGINS.some(origin => event.origin.startsWith(origin))
OriginAccepted(origin) == \E a \in ALLOWED_ORIGINS : StartsWith(origin, a)

\* The origins inbound messages are drawn from: two host origins, an
\* unrelated origin, and an origin that only begins like a host origin.
Origins ==
  { <<"https://eu.myconnectwise.net">>,
    <<"https://na.myconnectwise.net">>,
    <<"https://evil.example">>,
    <<"https://eu.myconnectwise.net", ".evil.example">> }

(***************************************************************************)
(* Inbound messages.  The host envelope carries at most one of: a frame    *)
(* token, a response/data pair, an event/data/_id tuple (or nothing the    *)
(* hook knows, or text that JSON.parse rejects).                           *)
(***************************************************************************)
\* event.data.data: absent (undefined, null), an object with the listed
\* properties, or an object whose screenObject property has them.
Data(kind, memberid, memberHash, id, recordId, screen, hostedAs) ==
  [kind |-> kind, memberid |-> memberid, memberHash |-> memberHash,
   id |-> id, recordId |-> recordId, screen |-> screen, hostedAs |-> hostedAs]

AbsentData == Data("absent", Undefined, Undefined, Undefined, Undefined, Undefined, Undefined)
EmptyObject == Data("object", Undefined, Undefined, Undefined, Undefined, Undefined, Undefined)
AuthData(memberid, memberHash) ==
  Data("object", memberid, memberHash, Undefined, Undefined, Undefined, Undefined)
ScreenData(kind, id, recordId, screen, hostedAs) ==
  Data(kind, Undefined, Undefined, id, recordId, screen, hostedAs)

Members == {"m1", "m2"}
GoodAuth == { AuthData(m, "hash") : m \in Members }
BadAuth == { AuthData("m1", Undefined) }

\* id, recordId, screen, hostedAs of the screen objects the host may send
ScreenShapes ==
  { <<"1", Undefined, "ticket", "pod">>,
    <<"1", Undefined, Undefined, Undefined>>,
    <<Undefined, "2", "bogus", Undefined>> }
DirectScreens == { ScreenData("object", s[1], s[2], s[3], s[4]) : s \in ScreenShapes }
WrappedScreens == { ScreenData("wrapped", s[1], s[2], s[3], s[4]) : s \in ScreenShapes }

Msg(parsable, token, response, data, event, id) ==
  [parsable |-> parsable, MessageFrameID |-> token, response |-> response,
   data |-> data, event |-> event, _id |-> id]

Tokens == {"f1", "f2"}
AuthResponseNames == {"getmemberauthentication", "getMemberAuthentication"}
ScreenResponseNames == {"getscreenobject", "getScreenObject"}

FrameMessages == { Msg(TRUE, t, Undefined, AbsentData, Undefined, 0) : t \in Tokens }
AuthResponses ==
  { Msg(TRUE, Undefined, r, d, Undefined, 0) :
      r \in AuthResponseNames, d \in GoodAuth \cup BadAuth \cup {AbsentData} }
ScreenResponses ==
  { Msg(TRUE, Undefined, r, d, Undefined, 0) :
      r \in ScreenResponseNames, d \in DirectScreens \cup {EmptyObject} }
EventMessages ==
  { Msg(TRUE, Undefined, Undefined, d, "onLoad", 1) :
      d \in WrappedScreens \cup {EmptyObject, AbsentData} }
  \cup { Msg(TRUE, Undefined, Undefined, AbsentData, "onLoad", 2),
         Msg(TRUE, Undefined, Undefined, AbsentData, "beforeSave", 2),
         Msg(TRUE, Undefined, Undefined, EmptyObject, "beforeSave", 1) }
OtherMessages ==
  { Msg(TRUE, Undefined, Undefined, AbsentData, Undefined, 0),    \* unrelated host traffic
    Msg(FALSE, Undefined, Undefined, AbsentData, Undefined, 0) }  \* JSON.parse throws
Messages ==
  FrameMessages \cup AuthResponses \cup ScreenResponses \cup EventMessages
    \cup OtherMessages

\* String.prototype.toLowerCase on the response names
toLowerCase(s) ==
  CASE s = "getMemberAuthentication" -> "getmemberauthentication"
    [] s = "getScreenObject" -> "getscreenobject"
    [] OTHER -> s

Truthy(data) == data.kind # "absent"
\* data.data.<property>
Prop(data, f) == IF data.kind = "object" THEN data[f] ELSE Undefined
\* data.data?.screenObject is truthy
HasScreenObject(data) == data.kind = "wrapped"
\* a || b
Or(a, b) == IF a # Undefined THEN a ELSE b

NullAuth == [memberid |-> Null, memberHash |-> Null]
NullScreen == [id |-> Null, screen |-> Null, hostedAs |-> Null]

\* variant: any object passes
MemberAuthSchema_Lax(data) == data.kind = "object"

\* MemberAuthSchema.safeParse(data).success; the two fields stand for the
\* six required string fields of the schema.
MemberAuthSchema(data) ==
  /\ data.kind = "object"
  /\ data.memberid # Undefined
  /\ data.memberHash # Undefined
ParsedAuth(data) == [memberid |-> data.memberid, memberHash |-> data.memberHash]

\* ScreenObjectSchema.safeParse(o).success, o given by its properties
ScreenObjectSchema(id, screen, hostedAs) ==
  /\ hostedAs \in {"pod", "tab"}
  /\ id # Undefined
  /\ screen \in {"ticket", "company", "contact", "salesorder"}
Screen(id, screen, hostedAs) == [id |-> id, screen |-> screen, hostedAs |-> hostedAs]

(***************************************************************************)
(* useHostedApi                                                            *)
(***************************************************************************)
Post(kind, name, id, result, frameID, target) ==
  [kind |-> kind, name |-> name, _id |-> id, result |-> result,
   frameID |-> frameID, target |-> target]

\* parentOriginRef.current || "*"
TargetOrigin(ref) == IF ref # NoOrigin THEN ref ELSE Wildcard

\* variant: the payload is sent without the frame token
postToParent_NoFrameId(name) ==
  IF ~inFrame THEN <<>>
  ELSE << Post("request", name, 0, Undefined, Null, TargetOrigin(parentOriginRef)) >>

\* postToParent({ request: name }): nothing is sent outside an iframe
postToParent(name) ==
  IF ~inFrame THEN <<>>
  ELSE << Post("request", name, 0, Undefined, frameIdRef, TargetOrigin(parentOriginRef)) >>

requestAuth == postToParent("getMemberAuthentication")
requestScreenObject == postToParent("getScreenObject")
refreshScreen == postToParent("refreshScreen")

\* the ready message of the setup effect
ReadyMessage ==
  IF inFrame THEN << Post("ready", "ready", 0, Undefined, Undefined, Wildcard) >> ELSE <<>>

\* variant: the origin is stored on every validated message
PinOrigin_Always(ref, origin) == origin

\* if (!parentOriginRef.current) parentOriginRef.current = event.origin
PinOrigin(ref, origin) == IF ref = NoOrigin THEN origin ELSE ref

\* variant: no duplicate check
IsDuplicateFrame_Never(ref, token) == FALSE

\* frameIdRef.current === data.MessageFrameID
IsDuplicateFrame(ref, token) == ref = token

\* the screen object a getscreenobject response stores, NullScreen for none
ScreenFromResponse(data) ==
  LET id == Prop(data, "id")
      recordId == Prop(data, "recordId")
      screen == Prop(data, "screen")
      hostedAs == Prop(data, "hostedAs")
  IN IF ScreenObjectSchema(id, screen, hostedAs) THEN Screen(id, screen, hostedAs)
     ELSE IF Or(id, recordId) # Undefined
          THEN Screen(Or(id, recordId), Or(screen, "ticket"), Or(hostedAs, "pod"))
          ELSE NullScreen

\* the screen object an onLoad event with data.screenObject stores
ScreenFromOnLoad(data) ==
  IF ScreenObjectSchema(data.id, data.screen, data.hostedAs)
  THEN Screen(data.id, data.screen, data.hostedAs)
  ELSE Screen(data.id, Or(data.screen, "ticket"), Or(data.hostedAs, "pod"))

\* variant: the acknowledgement drops the correlation id
Acknowledgement_NoId(m, frameRef, originRef) ==
  Post("ack", m.event, 0, "success", frameRef, TargetOrigin(originRef))

\* the acknowledgement of an event
Acknowledgement(m, frameRef, originRef) ==
  Post("ack", m.event, m._id, "success", frameRef, TargetOrigin(originRef))

\* The branch of handleMessage a message takes.
Branch(origin, m) ==
  IF ~OriginAccepted(origin) THEN "rejected"
  ELSE IF ~m.parsable THEN "throws"
  ELSE IF m.MessageFrameID # Undefined
       THEN IF IsDuplicateFrame(frameIdRef, m.MessageFrameID) THEN "duplicate" ELSE "frame"
  ELSE IF toLowerCase(m.response) = "getmemberauthentication" /\ Truthy(m.data)
       THEN IF MemberAuthSchema(m.data) THEN "auth" ELSE "authInvalid"
  ELSE IF m.response = "getscreenobject" /\ Truthy(m.data) THEN "screen"
  ELSE IF m.event # Undefined THEN "event"
  ELSE "ignored"

\* variant: a screen object is dropped until the frame token is known
NewScreen_NeedsFrame(b, m) ==
  IF frameIdRef = Null THEN NullScreen
  ELSE IF b = "screen" THEN ScreenFromResponse(m.data)
  ELSE IF b = "event" /\ m.event = "onLoad" /\ HasScreenObject(m.data)
       THEN ScreenFromOnLoad(m.data)
       ELSE NullScreen

\* the screen object a message makes handleMessage store, NullScreen for none
NewScreen(b, m) ==
  IF b = "screen" THEN ScreenFromResponse(m.data)
  ELSE IF b = "event" /\ m.event = "onLoad" /\ HasScreenObject(m.data)
       THEN ScreenFromOnLoad(m.data)
       ELSE NullScreen

\* values of the other parts that Init needs
EmptyMap == [k \in {} |-> [count |-> 0, resetTime |-> 0]]   \* new Map()
ChatIdentifiers == {"m1", "anonymous"}   \* memberId cookie, or "anonymous"
ChatMembers == {"m1"}                    \* who sends the turns of SpecChat
IdleTurn ==
  [member |-> "", command |-> Null, contextOk |-> FALSE, summary |-> <<>>,
   calls |-> <<>>, outcome |-> "idle", message |-> "",
   fetched |-> [ticket |-> FALSE, notes |-> FALSE, configurations |-> FALSE],
   formatted |-> FALSE, searches |-> <<>>, similar |-> <<>>,
   configTickets |-> <<>>]

NoHandled == [origin |-> NoOrigin, branch |-> "none"]
NoInflight == [origin |-> NoOrigin, sent |-> {}, delivered |-> {}]

InvalidAuthMessage == "Invalid authentication data from ConnectWise"
CookieFailedMessage == "Failed to authenticate with ConnectWise"

HostInit ==
  /\ mounted = "init"
  /\ isReady = FALSE
  /\ frameId = Null
  /\ frameIdRef = Null
  /\ auth = NullAuth
  /\ screenObject = NullScreen
  /\ parentOriginRef = NoOrigin
  /\ messageListenerRef = FALSE
  /\ listeners = 0
  /\ posted = <<>>
  /\ fired = <<>>
  /\ handled = NoHandled
  /\ isAuthenticated = FALSE
  /\ authError = Null
  /\ cookiePending = 0
  /\ requestEffectDue = FALSE
  /\ retried = FALSE
  /\ cookiesSet = FALSE
  /\ inflight = NoInflight

ChatInit ==
  /\ now = 0
  /\ rateLimitMap = EmptyMap
  /\ turn = IdleTurn
  /\ window = [id \in ChatIdentifiers |-> [start |-> 0, accepted |-> 0, restarted |-> FALSE]]
  /\ messages = <<>>
  /\ isLoading = FALSE
  /\ error = Null

NotesInit ==
  /\ notes = <<>>
  /\ evidence = <<>>
  /\ emitted = <<>>

\* the page is loaded, inside the host's iframe or on its own
Init ==
  /\ inFrame \in BOOLEAN
  /\ HostInit
  /\ ChatInit
  /\ source = "none"
  /\ NotesInit

hookVars == <<isReady, frameId, frameIdRef, auth, screenObject,
              parentOriginRef, messageListenerRef, listeners, posted, fired,
              handled>>
podVars == <<isAuthenticated, authError, cookiePending, requestEffectDue,
             retried, cookiesSet>>

\* variant: the cleanup forgets the listener without removing it
CleanupEffect_Forget(ref, n) == [ref |-> FALSE, listeners |-> n]

\* the cleanup function returned by the setup effect
CleanupEffect(ref, n) ==
  IF ref THEN [ref |-> FALSE, listeners |-> n - 1] ELSE [ref |-> ref, listeners |-> n]

\* the body of the setup effect: guard, addEventListener, ready message
SetupEffect(ref, n) ==
  IF ref THEN [ref |-> ref, listeners |-> n, posted |-> <<>>]
  ELSE [ref |-> TRUE, listeners |-> n + 1, posted |-> ReadyMessage]

\* First commit: the setup effect runs (Pod's request effect runs too, finds
\* isReady false and sends nothing).
Mount ==
  /\ mounted = "init"
  /\ LET s == SetupEffect(messageListenerRef, listeners)
     IN /\ messageListenerRef' = s.ref
        /\ listeners' = s.listeners
        /\ posted' = s.posted
  /\ mounted' = "live"
  /\ fired' = <<>>
  /\ handled' = NoHandled
  /\ UNCHANGED <<inflight, inFrame, isReady, frameId, frameIdRef, auth, screenObject,
                 parentOriginRef, podVars, chatVars, noteVars>>

\* A render with a new onReady / onAuth / onError: cleanup, then setup.
RerunEffect ==
  /\ mounted = "live"
  /\ LET c == CleanupEffect(messageListenerRef, listeners)
         s == SetupEffect(c.ref, c.listeners)
     IN /\ messageListenerRef' = s.ref
        /\ listeners' = s.listeners
        /\ posted' = s.posted
  /\ fired' = <<>>
  /\ handled' = NoHandled
  /\ UNCHANGED <<inflight, inFrame, mounted, isReady, frameId, frameIdRef, auth,
                 screenObject, parentOriginRef, podVars, chatVars, noteVars>>

Unmount ==
  /\ mounted = "live"
  /\ LET c == CleanupEffect(messageListenerRef, listeners)
     IN /\ messageListenerRef' = c.ref
        /\ listeners' = c.listeners
  /\ mounted' = "gone"
  /\ posted' = <<>>
  /\ fired' = <<>>
  /\ handled' = NoHandled
  /\ UNCHANGED <<inflight, inFrame, isReady, frameId, frameIdRef, auth, screenObject,
                 parentOriginRef, podVars, chatVars, noteVars>>

\* window dispatches a message event to the attached listener: what
\* handleMessage does to the hook.
handleMessage(origin, m) ==
  /\ mounted = "live"
  /\ listeners > 0
  /\ LET b == Branch(origin, m)
         newScreen == NewScreen(b, m)
         origin1 == IF b = "rejected" THEN parentOriginRef
                    ELSE PinOrigin(parentOriginRef, origin)
     IN /\ parentOriginRef' = origin1
        /\ frameIdRef' = IF b = "frame" THEN m.MessageFrameID ELSE frameIdRef
        /\ frameId' = IF b = "frame" THEN m.MessageFrameID ELSE frameId
        /\ isReady' = IF b = "frame" THEN TRUE ELSE isReady
        /\ auth' = IF b = "auth" THEN ParsedAuth(m.data) ELSE auth
        /\ screenObject' = IF newScreen # NullScreen THEN newScreen ELSE screenObject
        /\ posted' = IF b = "event"
                     THEN << Acknowledgement(m, frameIdRef, origin1) >>
                     ELSE <<>>
        /\ fired' = CASE b = "frame" -> <<"onReady">>
                      [] b = "auth" -> <<"onAuth">>
                      [] b = "authInvalid" -> <<"onError">>
                      [] OTHER -> <<>>
        /\ handled' = [origin |-> origin, branch |-> b]
  /\ UNCHANGED <<inFrame, mounted, messageListenerRef, listeners>>

\* the consumer of the hook calls one of the request functions it returns
Request(name) ==
  /\ mounted = "live"
  /\ posted' = postToParent(name)
  /\ fired' = <<>>
  /\ handled' = NoHandled
  /\ UNCHANGED <<inflight, inFrame, mounted, isReady, frameId, frameIdRef, auth,
                 screenObject, parentOriginRef, messageListenerRef, listeners,
                 podVars, chatVars, noteVars>>

RequestNames == {"getMemberAuthentication", "getScreenObject", "refreshScreen"}

\* ---- the hook on its own: callbacks are opaque, any request at any time
Deliver ==
  \E origin \in Origins, m \in Messages :
    handleMessage(origin, m) /\ UNCHANGED <<inflight, podVars, chatVars, noteVars>>
CallRequest == \E name \in RequestNames : Request(name)

Next ==
  \/ Mount
  \/ RerunEffect
  \/ Unmount
  \/ Deliver
  \/ CallRequest

Spec == Init /\ [][Next]_vars

(***************************************************************************)
(* The opening of a session: the host answers the ready message with a     *)
(* frame token, an authentication response and a screen object response,   *)
(* which reach the hook in any order.                                      *)
(***************************************************************************)
\* screen objects that pass ScreenObjectSchema
ValidScreens ==
  { ScreenData("object", "1", Undefined, screen, hostedAs) :
      screen \in {"ticket", "company"}, hostedAs \in {"pod", "tab"} }

\* the host, on one of its origins, sends the three messages
HostSends ==
  /\ mounted = "live"
  /\ inflight = NoInflight
  /\ \E origin \in ALLOWED_ORIGINS, f \in FrameMessages,
        name \in AuthResponseNames, a \in GoodAuth,
        sname \in ScreenResponseNames, d \in ValidScreens :
       inflight' = [origin |-> origin,
                    sent |-> { f, Msg(TRUE, Undefined, name, a, Undefined, 0),
                               Msg(TRUE, Undefined, sname, d, Undefined, 0) },
                    delivered |-> {}]
  /\ posted' = <<>>
  /\ fired' = <<>>
  /\ handled' = NoHandled
  /\ UNCHANGED <<inFrame, mounted, isReady, frameId, frameIdRef, auth,
                 screenObject, parentOriginRef, messageListenerRef, listeners,
                 podVars, chatVars, noteVars>>

\* one of the messages not yet delivered reaches handleMessage
DeliverInflight ==
  \E m \in inflight.sent \ inflight.delivered :
    /\ handleMessage(inflight.origin, m)
    /\ inflight' = [inflight EXCEPT !.delivered = @ \cup {m}]
    /\ UNCHANGED <<podVars, chatVars, noteVars>>

NextOrder ==
  \/ Mount
  \/ HostSends
  \/ DeliverInflight

SpecOrder == Init /\ [][NextOrder]_vars

(***************************************************************************)
(* The host sends the same screen object twice: in a getscreenobject       *)
(* response and in the data of an onLoad event.                            *)
(***************************************************************************)
\* id, recordId, screen, hostedAs of screen objects that do not pass
\* ScreenObjectSchema
LooseShapes ==
  { <<"1", Undefined, Undefined, Undefined>>,
    <<"1", Undefined, "bogus", "pod">>,
    <<"1", "2", "ticket", Undefined>>,
    <<Undefined, "2", "ticket", "pod">>,
    <<Undefined, "2", "bogus", Undefined>>,
    <<Undefined, Undefined, "ticket", "pod">>,
    <<Undefined, Undefined, Undefined, Undefined>> }

HostSendsRecord ==
  /\ mounted = "live"
  /\ inflight = NoInflight
  /\ \E origin \in ALLOWED_ORIGINS, s \in LooseShapes :
       inflight' =
         [origin |-> origin,
          sent |-> { Msg(TRUE, Undefined, "getscreenobject",
                         ScreenData("object", s[1], s[2], s[3], s[4]), Undefined, 0),
                     Msg(TRUE, Undefined, Undefined,
                         ScreenData("wrapped", s[1], s[2], s[3], s[4]), "onLoad", 1) },
          delivered |-> {}]
  /\ posted' = <<>>
  /\ fired' = <<>>
  /\ handled' = NoHandled
  /\ UNCHANGED <<inFrame, mounted, isReady, frameId, frameIdRef, auth,
                 screenObject, parentOriginRef, messageListenerRef, listeners,
                 podVars, chatVars, noteVars>>

NextRecord ==
  \/ Mount
  \/ HostSendsRecord
  \/ DeliverInflight

SpecRecord == Init /\ [][NextRecord]_vars

(***************************************************************************)
(* Pod: the component that owns the hook.  Its callbacks are stable, so    *)
(* the setup effect runs once; requests come from its request effect and   *)
(* from the Retry button.                                                  *)
(***************************************************************************)
MaxPending == 1   \* setAuthCookies calls in flight at once

PodOrigins == { <<"https://eu.myconnectwise.net">>, <<"https://evil.example">> }
PodMessages ==
  FrameMessages
    \cup { Msg(TRUE, Undefined, "getmemberauthentication", d, Undefined, 0) :
             d \in GoodAuth \cup BadAuth \cup {AbsentData} }
    \cup { Msg(TRUE, Undefined, "getscreenobject",
               ScreenData("object", "1", Undefined, "ticket", "pod"), Undefined, 0),
           Msg(TRUE, Undefined, Undefined,
               ScreenData("wrapped", "1", Undefined, "ticket", "pod"), "onLoad", 1) }

\* handleMessage with Pod's handleReady, handleAuth and handleError as the
\* option callbacks
PodDeliver ==
  \E origin \in PodOrigins, m \in PodMessages :
    /\ Branch(origin, m) = "auth" => cookiePending < MaxPending
    /\ handleMessage(origin, m)
    /\ cookiePending' = IF fired' = <<"onAuth">> THEN cookiePending + 1 ELSE cookiePending
    /\ authError' = IF fired' = <<"onError">> THEN InvalidAuthMessage ELSE authError
    /\ requestEffectDue' = (\/ requestEffectDue
                            \/ isReady' # isReady
                            \/ fired' = <<"onAuth">>
                            \/ NewScreen(Branch(origin, m), m) # NullScreen)
    /\ UNCHANGED <<inflight, isAuthenticated, retried, cookiesSet, chatVars, noteVars>>

\* "Request auth and screen object when ready"
PodRequestEffect ==
  /\ mounted = "live"
  /\ requestEffectDue
  /\ requestEffectDue' = FALSE
  /\ posted' = IF isReady
               THEN (IF auth = NullAuth THEN requestAuth ELSE <<>>)
                    \o (IF screenObject = NullScreen THEN requestScreenObject ELSE <<>>)
               ELSE <<>>
  /\ fired' = <<>>
  /\ handled' = NoHandled
  /\ UNCHANGED <<inflight, inFrame, mounted, isReady, frameId, frameIdRef, auth,
                 screenObject, parentOriginRef, messageListenerRef, listeners,
                 isAuthenticated, authError, cookiePending, retried, cookiesSet,
                 chatVars, noteVars>>

\* The Retry button of the authentication error screen, which is rendered
\* when the pod is not standalone, is ready and has a ticket id (the page
\* always passes one).
Retry ==
  /\ mounted = "live"
  /\ inFrame
  /\ isReady
  /\ authError # Null
  /\ authError' = Null
  /\ retried' = (retried \/ authError = InvalidAuthMessage)
  /\ posted' = requestAuth
  /\ fired' = <<>>
  /\ handled' = NoHandled
  /\ UNCHANGED <<inflight, inFrame, mounted, isReady, frameId, frameIdRef, auth,
                 screenObject, parentOriginRef, messageListenerRef, listeners,
                 isAuthenticated, cookiePending, requestEffectDue, cookiesSet,
                 chatVars, noteVars>>

\* variant: setIsAuthenticated(true) is reached whatever the call returns
handleAuth_Optimistic(ok) ==
  /\ mounted = "live"
  /\ cookiePending > 0
  /\ cookiePending' = cookiePending - 1
  /\ isAuthenticated' = TRUE
  /\ authError' = IF ok THEN Null ELSE CookieFailedMessage
  /\ cookiesSet' = (cookiesSet \/ ok)
  /\ posted' = <<>>
  /\ fired' = <<>>
  /\ handled' = NoHandled
  /\ UNCHANGED <<inflight, inFrame, mounted, isReady, frameId, frameIdRef, auth,
                 screenObject, parentOriginRef, messageListenerRef, listeners,
                 requestEffectDue, retried, chatVars, noteVars>>

\* handleAuth resumes after await setAuthCookies(auth): ok when the call
\* returned, not ok when it threw
handleAuth(ok) ==
  /\ mounted = "live"
  /\ cookiePending > 0
  /\ cookiePending' = cookiePending - 1
  /\ isAuthenticated' = IF ok THEN TRUE ELSE isAuthenticated
  /\ authError' = IF ok THEN Null ELSE CookieFailedMessage
  /\ cookiesSet' = (cookiesSet \/ ok)
  /\ posted' = <<>>
  /\ fired' = <<>>
  /\ handled' = NoHandled
  /\ UNCHANGED <<inflight, inFrame, mounted, isReady, frameId, frameIdRef, auth,
                 screenObject, parentOriginRef, messageListenerRef, listeners,
                 requestEffectDue, retried, chatVars, noteVars>>

CookieResult == \E ok \in BOOLEAN : handleAuth(ok)

NextPod ==
  \/ Mount
  \/ Unmount
  \/ PodDeliver
  \/ PodRequestEffect
  \/ Retry
  \/ CookieResult

SpecPod == Init /\ [][NextPod]_vars

(***************************************************************************)
(* Strings are sequences of one-character strings.                         *)
(***************************************************************************)
UpperCase == <<"A","B","C","D","E","F","G","H","I","J","K","L","M",
               "N","O","P","Q","R","S","T","U","V","W","X","Y","Z">>
LowerCase == <<"a","b","c","d","e","f","g","h","i","j","k","l","m",
               "n","o","p","q","r","s","t","u","v","w","x","y","z">>
Digits == {"0","1","2","3","4","5","6","7","8","9"}
WhiteSpace == {" ", "\t", "\n"}

Range(f) == { f[i] : i \in DOMAIN f }

\* String.prototype.toLowerCase
LowerChar(c) ==
  IF c \in Range(UpperCase)
  THEN LowerCase[CHOOSE i \in DOMAIN UpperCase : UpperCase[i] = c]
  ELSE c
ToLower(str) == [i \in DOMAIN str |-> LowerChar(str[i])]

\* .replace(/[^a-z0-9\s]/g, "")
IsKept(c) == c \in Range(LowerCase) \cup Digits \cup WhiteSpace
StripSymbols(str) == SelectSeq(str, IsKept)

\* .split(/\s+/): the pieces between runs of white space (a leading or
\* trailing run leaves an empty piece)
RECURSIVE SplitFrom(_, _, _, _)
SplitFrom(str, i, word, inGap) ==
  IF i > Len(str) THEN <<word>>
  ELSE IF str[i] \in WhiteSpace
       THEN IF inGap THEN SplitFrom(str, i + 1, word, TRUE)
            ELSE <<word>> \o SplitFrom(str, i + 1, <<>>, TRUE)
       ELSE SplitFrom(str, i + 1, Append(word, str[i]), FALSE)
Split(str) == SplitFrom(str, 1, <<>>, FALSE)

\* String.prototype.includes
Includes(str, sub) ==
  \E i \in 0..(Len(str) - Len(sub)) : SubSeq(str, i + 1, i + Len(sub)) = sub

\* Array.prototype.slice(0, n)
Take(seq, n) == SubSeq(seq, 1, IF Len(seq) < n THEN Len(seq) ELSE n)

(***************************************************************************)
(* searchSimilarTickets                                                    *)
(***************************************************************************)
STOP_WORDS ==
  { <<"u", "s", "e", "r">>,
    <<"i", "s", "s", "u", "e">>,
    <<"p", "r", "o", "b", "l", "e", "m">>,
    <<"h", "e", "l", "p">>,
    <<"n", "e", "e", "d">>,
    <<"p", "l", "e", "a", "s", "e">>,
    <<"u", "r", "g", "e", "n", "t">>,
    <<"a", "s", "a", "p">>,
    <<"w", "o", "r", "k", "i", "n", "g">>,
    <<"w", "o", "r", "k">>,
    <<"a", "b", "l", "e">>,
    <<"u", "n", "a", "b", "l", "e">>,
    <<"c", "a", "n", "n", "o", "t">>,
    <<"e", "r", "r", "o", "r">>,
    <<"h", "a", "v", "i", "n", "g">>,
    <<"g", "e", "t", "t", "i", "n", "g">>,
    <<"n", "e", "e", "d">>,
    <<"w", "a", "n", "t", "s">>,
    <<"r", "e", "q", "u", "e", "s", "t", "e", "d">>,
    <<"r", "e", "q", "u", "e", "s", "t">>,
    <<"s", "u", "p", "p", "o", "r", "t">>,
    <<"t", "i", "c", "k", "e", "t">>,
    <<"c", "l", "i", "e", "n", "t">>,
    <<"c", "u", "s", "t", "o", "m", "e", "r">>,
    <<"c", "o", "m", "p", "a", "n", "y">>,
    <<"s", "t", "a", "f", "f">>,
    <<"e", "m", "p", "l", "o", "y", "e", "e">>,
    <<"t", "e", "a", "m">>,
    <<"o", "f", "f", "i", "c", "e">>,
    <<"s", "i", "t", "e">> }

MinKeywordLength == 3   \* w.length > 3
MaxKeywords == 4        \* .slice(0, 4)

\* variant: short words are kept
IsKeyword_AnyLength(w) == w \notin STOP_WORDS

\* w.length > 3 && !STOP_WORDS.has(w)
IsKeyword(w) == Len(w) > MinKeywordLength /\ w \notin STOP_WORDS

\* the keywords searchSimilarTickets extracts from a summary
ExtractKeywords(summary) ==
  Take(SelectSeq(Split(StripSymbols(ToLower(summary))), IsKeyword), MaxKeywords)

\* variant: the search is sent even without keywords
SearchIsIssued_Always(keywords) == TRUE

\* if (keywords.length === 0) return [];
SearchIsIssued(keywords) == Len(keywords) # 0

\* ticket summaries the gateway may return
Summaries ==
  { <<"V", "P", "N", " ", "k", "e", "e", "p", "s", " ", "d", "i", "s", "c", "o", "n", "n", "e", "c", "t", "i", "n", "g", " ", "e", "v", "e", "r", "y", " ", "a", "f", "t", "e", "r", "n", "o", "o", "n">>,
    <<>>,
    <<"H", "e", "l", "p", ":", " ", "u", "s", "e", "r", " ", "i", "s", "s", "u", "e", "!">>,
    <<"E", "-", "m", "a", "i", "l", " ", "d", "o", "w", "n", " ", " ", "a", "g", "a", "i", "n">> }
\* those without a word of more than three characters outside STOP_WORDS
ZeroKeywordSummaries ==
  { <<>>,
    <<"H", "e", "l", "p", ":", " ", "u", "s", "e", "r", " ", "i", "s", "s", "u", "e", "!">> }

closedStatuses == { <<"c", "l", "o", "s", "e", "d">>,
                    <<"r", "e", "s", "o", "l", "v", "e", "d">>,
                    <<"c", "o", "m", "p", "l", "e", "t", "e", "d">> }

\* closedStatuses.some(s => t.status?.name?.toLowerCase().includes(s));
\* a missing status name is the empty string here
IsClosed(t) == \E c \in closedStatuses : Includes(ToLower(t.status), c)

\* variant: open tickets are put first
ClosedFirst_OpenFirst(a, b) ==
  IF IsClosed(a) /\ ~IsClosed(b) THEN 1
  ELSE IF ~IsClosed(a) /\ IsClosed(b) THEN -1
  ELSE 0

\* the comparator of tickets.sort(...)
ClosedFirst(a, b) ==
  IF IsClosed(a) /\ ~IsClosed(b) THEN -1
  ELSE IF ~IsClosed(a) /\ IsClosed(b) THEN 1
  ELSE 0

\* Array.prototype.sort with ClosedFirst (the sort is stable): each element
\* is put behind the elements that do not sort after it
RECURSIVE InsertTicket(_, _)
InsertTicket(sorted, t) ==
  IF sorted = <<>> THEN <<t>>
  ELSE IF ClosedFirst(sorted[Len(sorted)], t) <= 0 THEN Append(sorted, t)
  ELSE Append(InsertTicket(SubSeq(sorted, 1, Len(sorted) - 1), t), sorted[Len(sorted)])
RECURSIVE SortTickets(_)
SortTickets(tickets) ==
  IF tickets = <<>> THEN <<>>
  ELSE InsertTicket(SortTickets(SubSeq(tickets, 1, Len(tickets) - 1)), tickets[Len(tickets)])

Ticket(id, status) == [id |-> id, status |-> status]
T1 == Ticket(11, <<">", "C", "l", "o", "s", "e", "d">>)
T2 == Ticket(12, <<"I", "n", " ", "P", "r", "o", "g", "r", "e", "s", "s">>)
T3 == Ticket(13, <<"R", "e", "s", "o", "l", "v", "e", "d">>)
T4 == Ticket(14, <<>>)

\* what the gateway answers to a search: it fails, or returns tickets
Answer(ok, tickets) == [ok |-> ok, tickets |-> tickets]
NoAnswer == Answer(TRUE, <<>>)
CompanyAnswers ==
  { Answer(FALSE, <<>>), Answer(TRUE, <<>>), Answer(TRUE, <<T2, T1>>),
    Answer(TRUE, <<T2, T1, T3>>), Answer(TRUE, <<T2, T1, T4, T3>>) }
GlobalAnswers ==
  { Answer(FALSE, <<>>), Answer(TRUE, <<>>), Answer(TRUE, <<T4, T1>>) }

\* a call to the gateway or to the AI provider
Call(op, ticket, days, hasCompany, company, keywords) ==
  [op |-> op, ticket |-> ticket, days |-> days, hasCompany |-> hasCompany,
   company |-> company, keywords |-> keywords]
Fetch(op, ticket) == Call(op, ticket, 0, FALSE, 0, <<>>)

\* the searchTickets call of searchSimilarTickets: the conditions it builds
\* (if (companyId) ..., if (excludeTicketId) ..., the keyword clauses)
SearchCall(keywords, companyId, excludeTicketId, daysBack) ==
  Call("searchTickets", excludeTicketId, daysBack, companyId # 0, companyId, keywords)

\* searchSimilarTickets: the calls it makes and what it returns
searchSimilarTickets(summary, companyId, excludeTicketId, daysBack, answer) ==
  LET keywords == ExtractKeywords(summary)
  IN IF ~SearchIsIssued(keywords)
     THEN [calls |-> <<>>, ok |-> TRUE, tickets |-> <<>>]
     ELSE [calls |-> << SearchCall(keywords, companyId, excludeTicketId, daysBack) >>,
           ok |-> answer.ok,
           tickets |-> IF answer.ok THEN SortTickets(answer.tickets) ELSE <<>>]

CompanyDaysBack == 90   \* findSimilarCompanyTickets
GlobalDaysBack == 14    \* findSimilarGlobalTickets

\* one invocation of findSimilarCompanyTickets / findSimilarGlobalTickets:
\* the arguments it hands to searchSimilarTickets, whether searchTickets
\* was sent, what the gateway answered and what the invocation returned
Search(fn, companyId, days, answer, r) ==
  [fn |-> fn, companyId |-> companyId, days |-> days,
   issued |-> r.calls # <<>>, ok |-> r.ok,
   gateway |-> IF r.calls # <<>> /\ answer.ok THEN answer.tickets ELSE <<>>,
   returned |-> r.tickets]

(***************************************************************************)
(* processChat                                                             *)
(***************************************************************************)
RATE_LIMIT == 30
RATE_WINDOW == 60 * 1000

\* variant: one request too many passes
LimitReached_OffByOne(count) == count > RATE_LIMIT

\* entry.count >= RATE_LIMIT
LimitReached(count) == count >= RATE_LIMIT

\* variant: a new window clears the whole map
checkRateLimit_ClearsMap(map, identifier, t) ==
  IF identifier \notin DOMAIN map \/ t > map[identifier].resetTime
  THEN [allowed |-> TRUE,
        map |-> [k \in {identifier} |-> [count |-> 1, resetTime |-> t + RATE_WINDOW]]]
  ELSE IF LimitReached(map[identifier].count)
  THEN [allowed |-> FALSE, map |-> map]
  ELSE [allowed |-> TRUE,
        map |-> [map EXCEPT ![identifier].count = @ + 1]]

\* checkRateLimit(identifier) at time t on map: the verdict and the map
checkRateLimit(map, identifier, t) ==
  IF identifier \notin DOMAIN map \/ t > map[identifier].resetTime
  THEN [allowed |-> TRUE,
        map |-> [k \in DOMAIN map \cup {identifier} |->
                   IF k = identifier
                   THEN [count |-> 1, resetTime |-> t + RATE_WINDOW]
                   ELSE map[k]]]
  ELSE IF LimitReached(map[identifier].count)
  THEN [allowed |-> FALSE, map |-> map]
  ELSE [allowed |-> TRUE,
        map |-> [map EXCEPT ![identifier].count = @ + 1]]

RateLimitMessage == "Rate limit exceeded. Please wait a moment before sending more messages."
NoSimilarMessage == "No similar tickets found for this specific issue."
Completion == "<completion>"

CurrentTicket == 10
MinCompanyResults == 3   \* companyTickets.length < 3
MaxSimilar == 5          \* 5 - companyTickets.length, allSimilar.slice(0, 5)

\* Array.prototype.slice(0, n), also for negative n
Slice(seq, n) ==
  IF n >= 0 THEN Take(seq, n)
  ELSE Take(seq, IF Len(seq) + n > 0 THEN Len(seq) + n ELSE 0)

\* what became of the three fetches of getTicketContext
Fetched(ticketOk, notesOk, configurationsOk) ==
  [ticket |-> ticketOk, notes |-> notesOk, configurations |-> configurationsOk]
AllFetched == Fetched(TRUE, TRUE, TRUE)
NoFetch == Fetched(FALSE, FALSE, FALSE)
Fetches == { Fetched(a, b, c) : a \in BOOLEAN, b \in BOOLEAN, c \in BOOLEAN }

\* variant: the ticket alone decides
ContextOk_TicketOnly(f) == f.ticket

\* await Promise.all([getTicket, getTicketNotes, getTicketConfigurations])
\* returns only if all three do
ContextOk(f) == f.ticket /\ f.notes /\ f.configurations

\* a turn of processChat: who sent it, what it did and what it ended in.
\* formatTicketForAI runs exactly when getTicketContext has returned;
\* similar is allSimilar.slice(0, 5), the tickets whose notes are fetched.
Turn(member, command, contextOk, summary, calls, outcome, message) ==
  [member |-> member, command |-> command, contextOk |-> contextOk,
   summary |-> summary, calls |-> calls, outcome |-> outcome,
   message |-> message,
   fetched |-> IF contextOk THEN AllFetched ELSE NoFetch,
   formatted |-> contextOk,
   searches |-> <<>>,
   similar |-> <<>>,
   configTickets |-> <<>>]

\* getTicketContext: the three fetches are issued together
ContextCalls ==
  << Fetch("getTicket", CurrentTicket), Fetch("getTicketNotes", CurrentTicket),
     Fetch("getTicketConfigurations", CurrentTicket) >>

\* the getTicketNotes calls for the closed tickets among the similar ones
RECURSIVE NotesCalls(_)
NotesCalls(tickets) ==
  IF tickets = <<>> THEN <<>>
  ELSE (IF IsClosed(Head(tickets)) THEN << Fetch("getTicketNotes", Head(tickets).id) >> ELSE <<>>)
       \o NotesCalls(Tail(tickets))

ChatCall == Fetch("chat", CurrentTicket)

\* variant: the global search is always made
NeedGlobal_Always(companyTickets) == TRUE

\* if (companyTickets.length < 3)
NeedGlobal(companyTickets) == Len(companyTickets) < MinCompanyResults

\* the /similar block of processChat followed by the chat call: the turn
\* it ends in, given what the gateway and the provider answer
SimilarTurn(member, summary, companyId, companyAnswer, globalAnswer, notesOk, chatOk) ==
  LET c == searchSimilarTickets(summary, companyId, CurrentTicket, CompanyDaysBack, companyAnswer)
      needGlobal == c.ok /\ NeedGlobal(c.tickets)
      g == IF needGlobal
           THEN searchSimilarTickets(summary, 0, CurrentTicket, GlobalDaysBack, globalAnswer)
           ELSE [calls |-> <<>>, ok |-> TRUE, tickets |-> <<>>]
      allSimilar == c.tickets \o Slice(g.tickets, MaxSimilar - Len(c.tickets))
      noteCalls == NotesCalls(Take(allSimilar, MaxSimilar))
      calls0 == ContextCalls \o c.calls \o g.calls
      searches ==
        << Search("findSimilarCompanyTickets", companyId, CompanyDaysBack, companyAnswer, c) >>
          \o (IF needGlobal
              THEN << Search("findSimilarGlobalTickets", 0, GlobalDaysBack, globalAnswer, g) >>
              ELSE <<>>)
      T(calls, outcome, message) ==
        [Turn(member, "/similar", TRUE, summary, calls, outcome, message)
           EXCEPT !.searches = searches,
                  !.similar = IF c.ok /\ g.ok THEN Take(allSimilar, MaxSimilar) ELSE <<>>]
  IN IF ~c.ok \/ ~g.ok THEN T(calls0, "threw", "")
     ELSE IF Len(allSimilar) = 0 THEN T(calls0, "replied", NoSimilarMessage)
     ELSE IF ~notesOk /\ noteCalls # <<>> THEN T(calls0 \o noteCalls, "threw", "")
     ELSE IF ~chatOk THEN T(calls0 \o noteCalls \o <<ChatCall>>, "threw", "")
     ELSE T(calls0 \o noteCalls \o <<ChatCall>>, "replied", Completion)

(***************************************************************************)
(* The /config block of processChat                                        *)
(***************************************************************************)
MaxConfigs == 3         \* ticketContext.configurations.slice(0, 3)
ConfigDaysBack == 180   \* getConfigurationTickets: 6 months back

\* a configuration attached to the ticket, with what the gateway will do
\* for it: getConfiguration succeeds or not, the configuration has a name
\* or serial number to search for or not, and the answer to the search
Config(id, confOk, hasTerms, answer) ==
  [id |-> id, confOk |-> confOk, hasTerms |-> hasTerms, answer |-> answer]

T0 == Ticket(CurrentTicket, <<"N", "e", "w">>)   \* the current ticket itself

\* getConfigurationTickets(config.id): the calls it makes, what it returns
getConfigurationTickets(k) ==
  IF ~k.confOk
  THEN [calls |-> << Fetch("getConfiguration", k.id) >>, ok |-> FALSE, tickets |-> <<>>]
  ELSE IF ~k.hasTerms
  THEN [calls |-> << Fetch("getConfiguration", k.id) >>, ok |-> TRUE, tickets |-> <<>>]
  ELSE [calls |-> << Fetch("getConfiguration", k.id),
                     Call("searchTickets", 0, ConfigDaysBack, FALSE, 0, <<>>) >>,
        ok |-> k.answer.ok,
        tickets |-> IF k.answer.ok THEN k.answer.tickets ELSE <<>>]

\* history.filter(t => t.id !== ticketId)
NotCurrent(t) == t.id # CurrentTicket

\* the loop over the configurations: it stops at the first call that throws
RECURSIVE ConfigHistory(_, _)
ConfigHistory(configs, acc) ==
  IF configs = <<>> \/ ~acc.ok THEN acc
  ELSE LET h == getConfigurationTickets(Head(configs))
       IN ConfigHistory(Tail(configs),
                        [calls |-> acc.calls \o h.calls, ok |-> h.ok,
                         tickets |-> acc.tickets \o SelectSeq(h.tickets, NotCurrent)])

\* the /config block of processChat followed by the chat call, which is
\* reached whatever the block found
ConfigTurn(member, summary, configs, chatOk) ==
  LET h == IF Len(configs) > 0
           THEN ConfigHistory(Take(configs, MaxConfigs),
                              [calls |-> <<>>, ok |-> TRUE, tickets |-> <<>>])
           ELSE [calls |-> <<>>, ok |-> TRUE, tickets |-> <<>>]
      calls0 == ContextCalls \o h.calls
      T(calls, outcome, message) ==
        [Turn(member, "/config", TRUE, summary, calls, outcome, message)
           EXCEPT !.configTickets = h.tickets]
  IN IF ~h.ok THEN T(calls0, "threw", "")
     ELSE IF ~chatOk THEN T(calls0 \o <<ChatCall>>, "threw", "")
     ELSE T(calls0 \o <<ChatCall>>, "replied", Completion)

\* the configurations a ticket may have
ConfigLists ==
  { <<>>,
    << Config(21, FALSE, FALSE, NoAnswer) >>,
    << Config(21, TRUE, FALSE, NoAnswer) >>,
    << Config(21, TRUE, TRUE, Answer(FALSE, <<>>)) >>,
    << Config(21, TRUE, TRUE, Answer(TRUE, <<>>)) >>,
    << Config(21, TRUE, TRUE, Answer(TRUE, <<T0>>)) >>,
    << Config(21, TRUE, TRUE, Answer(TRUE, <<T0, T1>>)) >>,
    << Config(21, TRUE, FALSE, NoAnswer), Config(22, TRUE, TRUE, Answer(TRUE, <<T2>>)) >>,
    << Config(21, TRUE, TRUE, Answer(TRUE, <<T1>>)), Config(22, FALSE, FALSE, NoAnswer) >>,
    << Config(21, TRUE, FALSE, NoAnswer), Config(22, TRUE, FALSE, NoAnswer),
       Config(23, TRUE, FALSE, NoAnswer), Config(24, TRUE, TRUE, Answer(TRUE, <<T1>>)) >> }

MaxTicks == 3         \* the clock stops after this many ticks
TicksPerWindow == 2   \* a tick is this fraction of RATE_WINDOW

Commands == {Null, "/similar", "/config"}
Companies == {0, 7}   \* ticket.company?.id || 0

\* the entry of the rate window history after an accepted turn
Accepted(w, t) ==
  IF w.accepted = 0 \/ t > w.start + RATE_WINDOW
  THEN [start |-> t, accepted |-> 1, restarted |-> w.accepted > 0]
  ELSE [w EXCEPT !.accepted = @ + 1]

\* processChat ends in the turn result
ChatStep(member, result) ==
  LET rl == checkRateLimit(rateLimitMap, member, now)
  IN /\ rateLimitMap' = rl.map
     /\ window' = IF rl.allowed
                  THEN [window EXCEPT ![member] = Accepted(@, now)]
                  ELSE window
     /\ turn' = IF rl.allowed THEN result
                ELSE Turn(member, result.command, FALSE, <<>>, <<>>,
                          "rateLimited", RateLimitMessage)
     /\ UNCHANGED <<now, hostVars, noteVars>>

\* what a turn can end in once it is past the rate limiter, for every
\* answer the gateway and the provider may give (member filled in later)
ContextFailResults ==
  { [Turn("", command, FALSE, <<>>, ContextCalls, "threw", "") EXCEPT !.fetched = f] :
      command \in Commands, f \in { g \in Fetches : ~ContextOk(g) } }
\* the fetches after which getTicketContext returns a context
GoodFetches == { f \in Fetches : ContextOk(f) }
PlainResults ==
  { [Turn("", Null, TRUE, summary, ContextCalls \o <<ChatCall>>,
          IF chatOk THEN "replied" ELSE "threw", IF chatOk THEN Completion ELSE "")
       EXCEPT !.fetched = f] :
      summary \in Summaries, chatOk \in BOOLEAN, f \in GoodFetches }
SimilarResults ==
  { [SimilarTurn("", x[1], x[2], x[3], x[4], x[5], x[6]) EXCEPT !.fetched = x[7]] :
      x \in Summaries \X Companies \X CompanyAnswers \X GlobalAnswers
              \X BOOLEAN \X BOOLEAN \X GoodFetches }

\* (the /config block does not look at the summary: it is left empty)
ConfigResults ==
  { [ConfigTurn("", <<>>, x[1], x[2]) EXCEPT !.fetched = x[3]] :
      x \in ConfigLists \X BOOLEAN \X GoodFetches }

\* a turn whose getTicketContext fails (or that the rate limiter refuses)
ChatContextFails ==
  \E member \in ChatMembers, r \in ContextFailResults :
    /\ ChatStep(member, [r EXCEPT !.member = member])
    /\ UNCHANGED uiVars

\* a turn without slash command
ChatPlain ==
  \E member \in ChatMembers, r \in PlainResults :
    /\ checkRateLimit(rateLimitMap, member, now).allowed
    /\ ChatStep(member, [r EXCEPT !.member = member])
    /\ UNCHANGED uiVars

\* a /similar turn
ChatSimilar ==
  \E member \in ChatMembers, r \in SimilarResults :
    /\ checkRateLimit(rateLimitMap, member, now).allowed
    /\ ChatStep(member, [r EXCEPT !.member = member])
    /\ UNCHANGED uiVars

\* a /config turn
ChatConfig ==
  \E member \in ChatMembers, r \in ConfigResults :
    /\ checkRateLimit(rateLimitMap, member, now).allowed
    /\ ChatStep(member, [r EXCEPT !.member = member])
    /\ UNCHANGED uiVars

\* time passes
Tick ==
  /\ now < MaxTicks * (RATE_WINDOW \div TicksPerWindow)
  /\ now' = now + (RATE_WINDOW \div TicksPerWindow)
  /\ turn' = IdleTurn
  /\ UNCHANGED <<rateLimitMap, window, uiVars, hostVars, noteVars>>

NextChat ==
  \/ ChatContextFails
  \/ ChatPlain
  \/ ChatSimilar
  \/ ChatConfig
  \/ Tick

InitChat ==
  /\ inFrame = TRUE
  /\ HostInit
  /\ ChatInit
  /\ source = "none"
  /\ NotesInit

SpecChat == InitChat /\ [][NextChat]_vars

(***************************************************************************)
(* The rate limiter with several identities: every turn is cut down to    *)
(* its rate check, behind which it is a plain turn that succeeds.          *)
(***************************************************************************)
PlainOk ==
  Turn("", Null, TRUE, <<>>, ContextCalls \o <<ChatCall>>, "replied", Completion)

RateTurn ==
  \E identifier \in ChatIdentifiers :
    /\ ChatStep(identifier, [PlainOk EXCEPT !.member = identifier])
    /\ UNCHANGED uiVars

NextRate ==
  \/ RateTurn
  \/ Tick

SpecRate == InitChat /\ [][NextRate]_vars

(***************************************************************************)
(* Chat: the component that submits the turns.  Pod renders it with its    *)
(* isAuthenticated state; the member is the one of the memberId cookie.    *)
(***************************************************************************)
MaxTurns == 2   \* turns submitted in one conversation

\* Object.keys(SLASH_COMMANDS)
SLASH_COMMANDS ==
  << "/summary", "/suggest", "/next", "/similar", "/config", "/draft",
     "/escalate", "/5whys" >>

\* what the member types: a text is the sequence of the pieces it is made
\* of (trimmed, lower case), so that startsWith is a prefix test
UserTexts == { <<"hello">>, <<"/similar">>, <<"/config", " printer">> }

\* detectSlashCommand(message).command
detectSlashCommand(message) ==
  IF \E i \in DOMAIN SLASH_COMMANDS : StartsWith(message, << SLASH_COMMANDS[i] >>)
  THEN SLASH_COMMANDS[CHOOSE i \in DOMAIN SLASH_COMMANDS :
                        /\ StartsWith(message, << SLASH_COMMANDS[i] >>)
                        /\ \A j \in 1..(i - 1) : ~StartsWith(message, << SLASH_COMMANDS[j] >>)]
  ELSE Null

Message(role, content) == [role |-> role, content |-> content]

\* setMessages(prev => [...prev, assistantMsg])
AfterResponse(msgs, response) == Append(msgs, Message("assistant", response))

\* variant: a failed turn leaves a placeholder answer
AfterError_Placeholder(msgs) == Append(msgs, Message("assistant", ""))

\* the catch block does not touch messages
AfterError(msgs) == msgs

ErrorText == "ConnectWise API error"   \* err.message

\* what a turn with the given command can end in behind the rate limiter
ResultsFor(command) ==
  { r \in ContextFailResults : r.command = command }
    \cup (CASE command = "/similar" -> SimilarResults
            [] command = "/config" -> ConfigResults
            [] OTHER -> PlainResults)

\* handleSubmit up to the call of processChat
handleSubmit ==
  \E text \in UserTexts :
    /\ ~isLoading
    /\ isAuthenticated
    /\ Len(messages) < 2 * MaxTurns
    /\ error' = Null
    /\ messages' = Append(messages, Message("user", text))
    /\ isLoading' = TRUE
    /\ turn' = IdleTurn
    /\ UNCHANGED <<now, rateLimitMap, window, hostVars, noteVars>>

\* processChat runs on the server and handleSubmit resumes with its
\* response (try) or its error (catch), then clears isLoading (finally)
handleSubmitResumes ==
  /\ isLoading
  /\ \E member \in ChatMembers,
        r \in ResultsFor(detectSlashCommand(messages[Len(messages)].content)) :
       ChatStep(member, [r EXCEPT !.member = member])
  /\ messages' = IF turn'.outcome = "threw"
                 THEN AfterError(messages)
                 ELSE AfterResponse(messages, turn'.message)
  /\ error' = IF turn'.outcome = "threw" THEN ErrorText ELSE error
  /\ isLoading' = FALSE

\* Pod after the handshake: frame token, authentication and screen object
\* received, setAuthCookies done
PodAuthenticated ==
  /\ mounted = "live"
  /\ isReady = TRUE
  /\ frameId = "f1"
  /\ frameIdRef = "f1"
  /\ auth = [memberid |-> "m1", memberHash |-> "hash"]
  /\ screenObject = Screen("1", "ticket", "pod")
  /\ parentOriginRef = <<"https://eu.myconnectwise.net">>
  /\ messageListenerRef = TRUE
  /\ listeners = 1
  /\ posted = <<>>
  /\ fired = <<>>
  /\ handled = NoHandled
  /\ isAuthenticated = TRUE
  /\ authError = Null
  /\ cookiePending = 0
  /\ requestEffectDue = FALSE
  /\ retried = FALSE
  /\ cookiesSet = TRUE
  /\ inflight = NoInflight

InitUI ==
  /\ inFrame = TRUE
  /\ PodAuthenticated
  /\ ChatInit
  /\ source = "none"
  /\ NotesInit

NextUI ==
  \/ handleSubmit
  \/ handleSubmitResumes

SpecUI == InitUI /\ [][NextUI]_vars

(***************************************************************************)
(* The page session: Pod from its first render, with the Chat it renders.  *)
(***************************************************************************)
\* Pod's render reaches <Chat .../>: not standalone, ready, with a ticket id
\* (the page always passes one) and without authentication error
ChatRendered ==
  /\ mounted = "live"
  /\ inFrame
  /\ isReady
  /\ authError = Null

\* Chat's state is the one of a Chat that has just been mounted
ChatFresh == messages = <<>> /\ ~isLoading /\ error = Null

\* Pod renders something else: Chat is unmounted and its state is lost (a
\* response that arrives afterwards sets the state of no component)
ChatUnmounts ==
  /\ ~ChatRendered
  /\ ~ChatFresh
  /\ messages' = <<>>
  /\ isLoading' = FALSE
  /\ error' = Null
  /\ UNCHANGED <<now, rateLimitMap, turn, window, hostVars, noteVars>>

MaxSessionTurns == 1   \* turns the rate limiter has accepted in the session

\* what the gateway does in the session: the ticket has no summary and no
\* configuration attached, and its three fetches succeed or fail together
SessionAnswer(t) ==
  /\ t.summary = <<>>
  /\ t.fetched.ticket = t.fetched.notes
  /\ t.fetched.ticket = t.fetched.configurations
  /\ \A i \in DOMAIN t.calls : t.calls[i].op # "getConfiguration"

\* a step of Pod; the commit that unmounts Chat comes before any other step
SessionPod == (ChatRendered \/ ChatFresh) /\ NextPod

\* the form of the rendered Chat is submitted
SessionSubmit ==
  /\ ChatRendered
  /\ \A id \in ChatIdentifiers : window[id].accepted < MaxSessionTurns
  /\ handleSubmit

\* the response of processChat reaches the rendered Chat
SessionResumes ==
  /\ ChatRendered
  /\ handleSubmitResumes
  /\ SessionAnswer(turn')

NextSession ==
  \/ SessionPod
  \/ SessionSubmit
  \/ SessionResumes
  \/ ChatUnmounts

SpecSession == Init /\ [][NextSession]_vars

(***************************************************************************)
(* formatSimilarTicketsWithNotes: the notes it emits for one ticket        *)
(***************************************************************************)
\* the words of the fixKeywords pattern
fixKeywords ==
  { <<"f", "i", "x", "e", "d">>,
    <<"r", "e", "s", "o", "l", "v", "e", "d">>,
    <<"i", "n", "s", "t", "a", "l", "l", "e", "d">>,
    <<"u", "p", "d", "a", "t", "e", "d">>,
    <<"r", "e", "p", "l", "a", "c", "e", "d">>,
    <<"c", "h", "a", "n", "g", "e", "d">>,
    <<"c", "o", "n", "f", "i", "g", "u", "r", "e", "d">>,
    <<"e", "n", "a", "b", "l", "e", "d">>,
    <<"d", "i", "s", "a", "b", "l", "e", "d">>,
    <<"r", "e", "s", "e", "t">>,
    <<"r", "e", "i", "n", "s", "t", "a", "l", "l", "e", "d">>,
    <<"u", "p", "g", "r", "a", "d", "e", "d">>,
    <<"r", "e", "p", "a", "i", "r", "e", "d">>,
    <<"r", "e", "b", "o", "o", "t", "e", "d">>,
    <<"r", "e", "s", "t", "a", "r", "t", "e", "d">>,
    <<"c", "l", "e", "a", "r", "e", "d">>,
    <<"r", "e", "m", "o", "v", "e", "d">>,
    <<"a", "d", "d", "e", "d">>,
    <<"a", "p", "p", "l", "i", "e", "d">>,
    <<"r", "a", "n">>,
    <<"e", "x", "e", "c", "u", "t", "e", "d">>,
    <<"s", "e", "t">>,
    <<"t", "u", "r", "n", "e", "d">>,
    <<"s", "w", "i", "t", "c", "h", "e", "d">> }

WordChars == Range(LowerCase) \cup Range(UpperCase) \cup Digits \cup {"_"}

\* /\b(...)\b/i.test(text)
TestFixKeywords(text) ==
  LET lower == ToLower(text)
  IN \E w \in fixKeywords :
    \E i \in 0..(Len(text) - Len(w)) :
      /\ SubSeq(lower, i + 1, i + Len(w)) = w
      /\ i = 0 \/ text[i] \notin WordChars
      /\ i + Len(w) = Len(text) \/ text[i + Len(w) + 1] \notin WordChars

\* text.trim() is not empty
NotBlank(text) == \E i \in DOMAIN text : text[i] \notin WhiteSpace

NoteTexts ==
  { <<" ", " ">>,
    <<"o", "k">>,
    <<"R", "e", "s", "e", "t", " ", "i", "t">> }
BlankText == <<" ", " ">>
PlainText == <<"o", "k">>
ActionText == <<"R", "e", "s", "e", "t", " ", "i", "t">>
InWordText == <<"P", "r", "e", "s", "e", "t", "s">>   \* "reset", "set" inside a word

\* long texts: n characters between l and t blanks
Filler(n, c) == [i \in 1..n |-> c]
LongText(l, n, t) == Filler(l, " ") \o Filler(n, "x") \o Filler(t, " ")
LongTexts ==
  { LongText(l, n, t) : l \in {0, 1}, n \in {499, 500, 501}, t \in {0, 2} }

AllTexts == NoteTexts \cup {InWordText} \cup LongTexts

\* the two tests, once per text
IsAction == [t \in AllTexts |-> TestFixKeywords(t)]
HasText == [t \in AllTexts |-> NotBlank(t)]

\* dateCreated is the time in ms, 0 when the note has none:
\* a.dateCreated ? new Date(a.dateCreated).getTime() : 0
Note(id, text, resolutionFlag, dateCreated) ==
  [id |-> id, text |-> text, resolutionFlag |-> resolutionFlag,
   dateCreated |-> dateCreated]

MaxEvidence == 10   \* relevantNotes.length < 10
FirstCount == 2     \* allNotes.slice(0, 2)
LastCount == 3      \* allNotes.slice(-3)

KeepsText(n) == HasText[n.text]
IsResolution(n) == n.resolutionFlag
IsActionNote(n) == ~n.resolutionFlag /\ IsAction[n.text]

\* Array.prototype.slice(-n)
Last(seq, n) == SubSeq(seq, IF Len(seq) > n THEN Len(seq) - n + 1 ELSE 1, Len(seq))

\* variant: the bookends are taken before the resolution and action notes
Candidates_BookendsFirst(ns) ==
  LET allNotes == SelectSeq(ns, KeepsText)
  IN Take(allNotes, FirstCount) \o Last(allNotes, LastCount)
       \o SelectSeq(allNotes, IsResolution) \o SelectSeq(allNotes, IsActionNote)

\* [...resolutionNotes, ...actionNotes, ...firstNotes, ...lastNotes]
Candidates(ns) ==
  LET allNotes == SelectSeq(ns, KeepsText)
  IN SelectSeq(allNotes, IsResolution) \o SelectSeq(allNotes, IsActionNote)
       \o Take(allNotes, FirstCount) \o Last(allNotes, LastCount)

\* variant: no cap on the number of notes
MayTake_NoCap(note, taken) ==
  \A i \in DOMAIN taken : taken[i].id # note.id

\* !noteIds.has(note.id) && relevantNotes.length < 10
MayTake(note, taken) ==
  /\ \A i \in DOMAIN taken : taken[i].id # note.id
  /\ Len(taken) < MaxEvidence

\* the loop that fills relevantNotes
RECURSIVE TakeNotes(_, _)
TakeNotes(candidates, taken) ==
  IF candidates = <<>> THEN taken
  ELSE TakeNotes(Tail(candidates),
                 IF MayTake(Head(candidates), taken)
                 THEN Append(taken, Head(candidates)) ELSE taken)
RelevantNotes(ns) == TakeNotes(Candidates(ns), <<>>)

\* relevantNotes.sort((a, b) => dateA - dateB), a stable sort
RECURSIVE InsertNote(_, _)
InsertNote(sorted, n) ==
  IF sorted = <<>> THEN <<n>>
  ELSE IF sorted[Len(sorted)].dateCreated - n.dateCreated <= 0 THEN Append(sorted, n)
  ELSE Append(InsertNote(SubSeq(sorted, 1, Len(sorted) - 1), n), sorted[Len(sorted)])
RECURSIVE SortNotes(_)
SortNotes(ns) ==
  IF ns = <<>> THEN <<>>
  ELSE InsertNote(SortNotes(SubSeq(ns, 1, Len(ns) - 1)), ns[Len(ns)])

\* variant: the selection is emitted in the order it was made
SortByDate_Unsorted(ns) == ns

\* the "Sort by date" step
SortByDate(ns) == SortNotes(ns)

\* the notes the formatter writes out for one ticket, in order
EvidenceNotes(ns) == SortByDate(RelevantNotes(ns))

MaxNoteChars == 500   \* .slice(0, 500), length > 500

\* String.prototype.trim
Trim(str) ==
  LET kept == { i \in DOMAIN str : str[i] \notin WhiteSpace }
  IN IF kept = {} THEN <<>>
     ELSE SubSeq(str, CHOOSE i \in kept : \A j \in kept : i <= j,
                      CHOOSE i \in kept : \A j \in kept : j <= i)

\* what the last loop writes for a note: noteText, and whether "..." follows
NoteLine(text) ==
  [noteText |-> Take(Trim(text), MaxNoteChars),
   marker |-> Len(text) > MaxNoteChars]
Lines == [t \in AllTexts |-> NoteLine(t)]
EmitNotes(ev) == [j \in DOMAIN ev |-> Lines[ev[j].text]]

MaxNotes == 11        \* notes of a ticket fetched from the gateway
MaxCallerNotes == 2   \* notes of a collection built by any other caller

\* getTicketNotes returns the notes sorted by dateCreated; the gateway gives
\* every note its own id.  The k-th note of such a collection:
FetchedNotes(k) ==
  { Note(k, PlainText, TRUE, k * 1000),
    Note(k, ActionText, FALSE, k * 1000),
    Note(k, PlainText, FALSE, k * 1000) }

\* any other caller may pass whatever it likes
CallerNotes ==
  { Note(id, text, flag, date) :
      id \in 1..2, text \in NoteTexts,
      flag \in BOOLEAN, date \in {0, 1000} }

\* formatSimilarTicketsWithNotes on the notes processChat fetched for a
\* closed ticket, one note longer than the last time
FormatFetched ==
  /\ source = "gateway"
  /\ Len(notes) < MaxNotes
  /\ \E n \in FetchedNotes(Len(notes) + 1) :
       /\ notes' = Append(notes, n)
       /\ evidence' = EvidenceNotes(notes')
       /\ emitted' = EmitNotes(evidence')
  /\ UNCHANGED <<source, hostVars, chatVars>>

\* formatSimilarTicketsWithNotes on a collection of any make
FormatAny ==
  /\ source = "caller"
  /\ Len(notes) < MaxCallerNotes
  /\ \E n \in CallerNotes :
       /\ notes' = Append(notes, n)
       /\ evidence' = EvidenceNotes(notes')
       /\ emitted' = EmitNotes(evidence')
  /\ UNCHANGED <<source, hostVars, chatVars>>

InitNotes ==
  /\ inFrame = TRUE
  /\ HostInit
  /\ ChatInit
  /\ source \in {"gateway", "caller"}
  /\ NotesInit

NextNotes ==
  \/ FormatFetched
  \/ FormatAny

SpecNotes == InitNotes /\ [][NextNotes]_vars

(***************************************************************************)
(* One ticket with a longer history: few of its notes are flagged as the   *)
(* resolution or name an action, the others are plain.                     *)
(***************************************************************************)
MaxTicketNotes == 12   \* notes of the ticket
MaxFlagged == 2        \* of them flagged as resolution
MaxActions == 4        \* of them unflagged and naming an action

\* the k-th note of the ticket
TicketNotes(k) ==
  { Note(k, PlainText, TRUE, k * 1000),
    Note(k, ActionText, FALSE, k * 1000),
    Note(k, InWordText, FALSE, k * 1000) }

\* formatSimilarTicketsWithNotes on the notes of that ticket, one note
\* longer than the last time
FormatTicket ==
  /\ source = "ticket"
  /\ Len(notes) < MaxTicketNotes
  /\ \E n \in TicketNotes(Len(notes) + 1) :
       /\ notes' = Append(notes, n)
       /\ Len(SelectSeq(notes', IsResolution)) <= MaxFlagged
       /\ Len(SelectSeq(notes', IsActionNote)) <= MaxActions
       /\ evidence' = EvidenceNotes(notes')
       /\ emitted' = EmitNotes(evidence')
  /\ UNCHANGED <<source, hostVars, chatVars>>

InitTicket ==
  /\ inFrame = TRUE
  /\ HostInit
  /\ ChatInit
  /\ source = "ticket"
  /\ NotesInit

SpecTicket == InitTicket /\ [][FormatTicket]_vars

(***************************************************************************)
(* A ticket whose notes are long                                           *)
(***************************************************************************)
MaxLongNotes == 2   \* notes of the ticket

FormatLong ==
  /\ source = "long"
  /\ Len(notes) < MaxLongNotes
  /\ \E text \in LongTexts :
       /\ notes' = Append(notes, Note(Len(notes) + 1, text, FALSE, (Len(notes) + 1) * 1000))
       /\ evidence' = EvidenceNotes(notes')
       /\ emitted' = EmitNotes(evidence')
  /\ UNCHANGED <<source, hostVars, chatVars>>

InitLong ==
  /\ inFrame = TRUE
  /\ HostInit
  /\ ChatInit
  /\ source = "long"
  /\ NotesInit

SpecLong == InitLong /\ [][FormatLong]_vars

(***************************************************************************)
(* Properties of the host channel session                                  *)
(***************************************************************************)
sessionState == <<parentOriginRef, isReady, frameId, frameIdRef, auth, screenObject>>

\* C1: a message whose origin is not one of ALLOWED_ORIGINS changes neither
\* parentOriginRef, isReady, frameId, auth nor screenObject, fires no
\* callback and posts nothing -- also as the first message of the session.
C1_OriginRejection ==
  [][ \A origin \in Origins \ ALLOWED_ORIGINS, m \in Messages :
        handled'.origin = origin /\ handleMessage(origin, m) =>
          /\ UNCHANGED sessionState
          /\ posted' = <<>>
          /\ fired' = <<>> ]_vars

\* C2: once an origin is pinned, whatever is posted to the parent (request,
\* acknowledgement, repeated ready message) targets the pinned origin.
C2_NoWildcardAfterPin ==
  parentOriginRef # NoOrigin =>
    \A i \in DOMAIN posted : posted[i].target = parentOriginRef

\* C3: the first message that passes origin validation pins
\* parentOriginRef; no later message changes it, and acknowledgements of
\* later messages target the origin pinned first.
C3_OriginPinnedOnce ==
  [][ /\ parentOriginRef # NoOrigin => parentOriginRef' = parentOriginRef
      /\ handled'.branch # "none" /\ OriginAccepted(handled'.origin) =>
           /\ parentOriginRef = NoOrigin => parentOriginRef' = handled'.origin
           /\ parentOriginRef # NoOrigin =>
                \A i \in DOMAIN posted' :
                  posted'[i].kind = "ack" => posted'[i].target = parentOriginRef
    ]_vars

\* a message from another accepted origin was acknowledged to the pinned one
C3_Witness ==
  /\ parentOriginRef = <<"https://eu.myconnectwise.net">>
  /\ handled.origin = <<"https://na.myconnectwise.net">>
  /\ Len(posted) = 1
  /\ posted[1].kind = "ack"
  /\ posted[1].target = <<"https://eu.myconnectwise.net">>

\* C4: a MessageFrameID message from an allow-listed origin whose token is
\* the one delivered just before changes neither frameId, isReady, auth nor
\* screenObject and does not fire onReady again.
C4_FrameIdempotent ==
  [][ \A origin \in Origins \cap ALLOWED_ORIGINS, m \in FrameMessages :
        /\ handled'.origin = origin
        /\ frameIdRef = m.MessageFrameID
        /\ handleMessage(origin, m)
        =>
          /\ UNCHANGED <<frameId, frameIdRef, isReady, auth, screenObject>>
          /\ fired' = <<>> ]_vars

\* the token has been delivered a second time
C4_Witness ==
  /\ handled.branch = "duplicate"
  /\ handled.origin \in ALLOWED_ORIGINS
  /\ frameId = "f1"
  /\ isReady

\* C5: every event message from an allow-listed origin is answered by
\* exactly one post carrying its event name, its _id and result "success",
\* whatever its data and whether or not a frame token has arrived.
C5_EventAcknowledged ==
  [][ \A origin \in Origins \cap ALLOWED_ORIGINS, m \in EventMessages :
        handled'.origin = origin /\ handleMessage(origin, m) =>
          /\ Len(posted') = 1
          /\ posted'[1].kind = "ack"
          /\ posted'[1].name = m.event
          /\ posted'[1]._id = m._id
          /\ posted'[1].result = "success" ]_vars

\* an onLoad event whose screenObject fails validation was acknowledged
\* before any frame token arrived
C5_Witness ==
  /\ handled.branch = "event"
  /\ handled.origin \in ALLOWED_ORIGINS
  /\ frameIdRef = Null
  /\ screenObject = Screen(Undefined, "bogus", "pod")
  /\ Len(posted) = 1
  /\ posted[1].kind = "ack"
  /\ posted[1]._id = 1

\* C6: a getMemberAuthentication response whose data fails the schema
\* leaves auth, frameId, isReady and screenObject alone and invokes onError
\* once; a well-formed response, at any later time, sets auth and fires
\* onAuth.
C6_InvalidAuthRecoverable ==
  [][ \A origin \in PodOrigins \cap ALLOWED_ORIGINS, m \in PodMessages :
        /\ handled'.origin = origin
        /\ m.response = "getmemberauthentication"
        /\ Truthy(m.data)
        /\ handleMessage(origin, m)
        => IF m.data \in GoodAuth
           THEN /\ auth' = ParsedAuth(m.data)
                /\ fired' = <<"onAuth">>
           ELSE /\ UNCHANGED <<auth, frameId, frameIdRef, isReady, screenObject>>
                /\ fired' = <<"onError">>
                /\ authError' = InvalidAuthMessage ]_vars

\* after an invalid response and Pod's Retry, a well-formed response has
\* set auth (the error screen of the invalid response is gone, the cookie
\* call of handleAuth is still awaited)
C6_Witness ==
  /\ handled.branch = "auth"
  /\ fired = <<"onAuth">>
  /\ auth = [memberid |-> "m1", memberHash |-> "hash"]
  /\ retried
  /\ authError = Null
  /\ ~isAuthenticated

\* C16: once frameId is assigned no step changes it, and no later message
\* fires onReady again -- a MessageFrameID message with another token
\* included.
C16_FrameIdImmutable ==
  [][ frameId # Null => frameId' = frameId /\ fired' # <<"onReady">> ]_vars

\* C17: once auth is set no step changes it, whatever authentication
\* response arrives.
C17_AuthSetOnce ==
  [][ auth # NullAuth => auth' = auth ]_vars

\* C18: while no frame token has been received, nothing but the ready
\* message is posted to the parent.
C18_OnlyReadyBeforeFrame ==
  frameIdRef = Null => \A i \in DOMAIN posted : posted[i].kind = "ready"

\* C19: the window never has more than one listener of the hook, the
\* listener is attached exactly while messageListenerRef holds it, a
\* message is handled by that one listener, and none remains after
\* teardown.
C19_SingleListener ==
  /\ listeners <= 1
  /\ messageListenerRef <=> listeners = 1
  /\ handled.branch # "none" => listeners = 1
  /\ mounted = "gone" => listeners = 0

\* the setup effect has run again after the origin was pinned: the ready
\* message went out again and there is still one listener
C19_Witness ==
  /\ mounted = "live"
  /\ parentOriginRef # NoOrigin
  /\ Len(posted) = 1
  /\ posted[1].kind = "ready"
  /\ listeners = 1

(***************************************************************************)
(* Properties of processChat                                               *)
\* C27: a screen object that fails strict validation is stored the same
\* way whether it comes in a getscreenobject response or in an onLoad
\* event: after one of the two has been handled, handling the other, which
\* carries the same screen object, changes nothing (both store the same
\* record, or neither stores one).
C27_SameFallback ==
  [][ /\ Cardinality(inflight.delivered) = 1
      /\ inflight'.delivered = inflight.sent
      => screenObject' = screenObject ]_vars

\* C25: a getMemberAuthentication or getScreenObject request of Pod is sent
\* only once a frame token has been received, and its frameID is the token
\* the host assigned last.
C25_RequestsCarryToken ==
  \A i \in DOMAIN posted :
    posted[i].kind = "request"
      /\ posted[i].name \in {"getMemberAuthentication", "getScreenObject"}
    => /\ isReady
       /\ frameId \in Tokens
       /\ posted[i].frameID = frameId
       /\ posted[i].frameID = frameIdRef

\* after a second token, Pod's request effect sends both requests with it
C25_Witness ==
  /\ Len(posted) = 2
  /\ posted[1].name = "getMemberAuthentication"
  /\ posted[2].name = "getScreenObject"
  /\ posted[1].frameID = "f2"
  /\ posted[2].frameID = "f2"
  /\ parentOriginRef # NoOrigin

\* the message of each kind among those the host has sent
SentFrame == CHOOSE m \in inflight.sent : m.MessageFrameID # Undefined
SentAuth == CHOOSE m \in inflight.sent : toLowerCase(m.response) = "getmemberauthentication"
SentScreen == CHOOSE m \in inflight.sent : toLowerCase(m.response) = "getscreenobject"

\* C24: a frame token, a well-formed authentication response and a
\* well-formed screen object response from an allowed origin may arrive in
\* any order.  Whatever the order, frameId is the token exactly when the
\* token has arrived, auth the identity exactly when the authentication
\* response has, screenObject the record exactly when the screen object
\* response has (so every order ends in the same three values), and the
\* screen object response changes neither isReady, frameId nor auth.
\* (The screen object response is one named "getscreenobject".)
C24_AnyOrder ==
  /\ [](inflight.sent # {} /\ SentScreen.response = "getscreenobject" =>
         /\ frameId = IF SentFrame \in inflight.delivered
                       THEN SentFrame.MessageFrameID ELSE Null
         /\ isReady = (SentFrame \in inflight.delivered)
         /\ auth = IF SentAuth \in inflight.delivered
                    THEN [memberid |-> SentAuth.data.memberid,
                          memberHash |-> SentAuth.data.memberHash]
                    ELSE NullAuth
         /\ screenObject = IF SentScreen \in inflight.delivered
                            THEN [id |-> SentScreen.data.id,
                                  screen |-> SentScreen.data.screen,
                                  hostedAs |-> SentScreen.data.hostedAs]
                            ELSE NullScreen)
  /\ [][handled'.branch = "screen" =>
         /\ isReady' = isReady
         /\ frameId' = frameId
         /\ frameIdRef' = frameIdRef
         /\ auth' = auth
         /\ screenObject' # screenObject]_vars

\* all three have arrived, the frame token last
C24_Witness ==
  /\ inflight.sent # {}
  /\ SentScreen.response = "getscreenobject"
  /\ inflight.delivered = inflight.sent
  /\ handled.branch = "frame"
  /\ isReady
  /\ auth # NullAuth
  /\ screenObject # NullScreen

\* C26: responses are matched to their kind whatever the letter case of the
\* response field: once the screen object response has arrived, in either
\* spelling, screenObject is its record, as auth is the identity once the
\* authentication response has arrived in either spelling.
C26_ResponseAnyCase ==
  inflight.sent # {} =>
    /\ SentAuth \in inflight.delivered =>
         auth = [memberid |-> SentAuth.data.memberid,
                 memberHash |-> SentAuth.data.memberHash]
    /\ SentScreen \in inflight.delivered =>
         screenObject = [id |-> SentScreen.data.id,
                         screen |-> SentScreen.data.screen,
                         hostedAs |-> SentScreen.data.hostedAs]

(***************************************************************************)
HasCall(ops) == \E i \in DOMAIN turn.calls : turn.calls[i].op \in ops

\* C7: within one rate window of an identity at most RATE_LIMIT turns are
\* accepted; a turn arriving in a window that already has RATE_LIMIT
\* accepted turns gets the fixed message and makes no gateway and no
\* provider call.
C7_RateLimit ==
  [][ turn'.outcome # "idle" =>
        LET w == window[turn'.member]
        IN /\ window'[turn'.member].accepted <= RATE_LIMIT
           /\ w.accepted >= RATE_LIMIT /\ now <= w.start + RATE_WINDOW =>
                /\ turn'.outcome = "rateLimited"
                /\ turn'.message = RateLimitMessage
                /\ turn'.calls = <<>> ]_vars

\* the 31st turn of a window has been refused
C7_Witness ==
  /\ turn.outcome = "rateLimited"
  /\ turn.member = "m1"
  /\ window["m1"].accepted = RATE_LIMIT
  /\ now = window["m1"].start + RATE_WINDOW
  /\ turn.calls = <<>>

\* C8: a /similar turn whose ticket summary has no keyword calls neither
\* searchTickets nor the AI provider and answers with the fixed message.
C8_NoKeywordsNoSearch ==
  turn.command = "/similar" /\ turn.contextOk /\ turn.summary \in ZeroKeywordSummaries =>
    /\ ~HasCall({"searchTickets", "chat"})
    /\ turn.outcome = "replied"
    /\ turn.message = NoSimilarMessage

\* such a turn has happened, for a summary made of stop words
C8_Witness ==
  /\ turn.command = "/similar"
  /\ turn.contextOk
  /\ turn.summary = <<"H", "e", "l", "p", ":", " ", "u", "s", "e", "r", " ", "i", "s", "s", "u", "e", "!">>
  /\ turn.message = NoSimilarMessage

\* C11: a search that reached the gateway returns the gateway's tickets,
\* the closed-like ones first and then the others, each group in the
\* gateway's order.
C11_ClosedFirstStable ==
  \A i \in DOMAIN turn.searches :
    LET s == turn.searches[i]
        IsOpen(t) == ~IsClosed(t)
    IN s.issued /\ s.ok =>
         s.returned = SelectSeq(s.gateway, IsClosed) \o SelectSeq(s.gateway, IsOpen)

\* the gateway returned open and closed tickets interleaved
C11_Witness ==
  /\ Len(turn.searches) = 1
  /\ turn.searches[1].gateway = <<T2, T1, T4, T3>>
  /\ turn.searches[1].returned = <<T1, T3, T2, T4>>

\* the searchTickets calls of the turn, in the order they were made
SearchCalls == SelectSeq(turn.calls, LAMBDA c : c.op = "searchTickets")

VpnSummary ==
  <<"V", "P", "N", " ", "k", "e", "e", "p", "s", " ", "d", "i", "s", "c", "o", "n", "n", "e", "c", "t", "i", "n", "g", " ", "e", "v", "e", "r", "y", " ", "a", "f", "t", "e", "r", "n", "o", "o", "n">>
Keeps == <<"k", "e", "e", "p", "s">>
Disconnecting == <<"d", "i", "s", "c", "o", "n", "n", "e", "c", "t", "i", "n", "g">>
Every == <<"e", "v", "e", "r", "y">>
Afternoon == <<"a", "f", "t", "e", "r", "n", "o", "o", "n">>

\* a /similar turn for that summary got as far as the search with the given
\* keywords: the first query sent is the 90-day query of
\* findSimilarCompanyTickets (company-scoped for a ticket that has a
\* company) with these keywords, and a 14-day global query only follows it
VpnSearch(keywords) ==
  turn.command = "/similar" /\ turn.summary = VpnSummary /\ turn.formatted =>
    /\ SearchCalls # <<>>
    /\ turn.searches[1].fn = "findSimilarCompanyTickets"
    /\ SearchCalls[1].keywords = keywords
    /\ SearchCalls[1].days = 90
    /\ turn.searches[1].companyId # 0 =>
         SearchCalls[1].hasCompany /\ SearchCalls[1].company = turn.searches[1].companyId
    /\ \A i \in DOMAIN SearchCalls :
         i > 1 => /\ SearchCalls[i].days = 14
                  /\ ~SearchCalls[i].hasCompany
                  /\ SearchCalls[i].keywords = keywords

\* C23 (as stated): the keywords extracted from "VPN keeps disconnecting
\* every afternoon" are disconnecting, every, afternoon, in that order, and
\* the same-tenant 90-day search built from them is issued before any
\* global search.
C23_VpnKeywords == VpnSearch(<<Disconnecting, Every, Afternoon>>)

\* C23 (amended): the keywords extracted from that summary are keeps,
\* disconnecting, every, afternoon, in that order, and the same-tenant
\* 90-day search built from them is issued before any global search.
C23_VpnKeywordsWithKeeps == VpnSearch(<<Keeps, Disconnecting, Every, Afternoon>>)

\* a /similar turn for that summary of a ticket with a company: the company
\* search found two tickets and the global search followed
C23_Witness ==
  /\ turn.command = "/similar"
  /\ turn.summary = VpnSummary
  /\ turn.outcome = "replied"
  /\ Len(SearchCalls) = 2
  /\ SearchCalls[1].company = 7
  /\ SearchCalls[1].keywords = <<Keeps, Disconnecting, Every, Afternoon>>
  /\ SearchCalls[2].days = 14
  /\ Len(turn.searches[1].returned) = 2

\* C13: a turn that passes the rate limiter issues the ticket, notes and
\* configurations fetches; it has a context exactly if all three succeeded,
\* and otherwise it fails without formatting a context and without a call
\* to the AI provider.
C13_ContextAllOrNothing ==
  turn.outcome \notin {"idle", "rateLimited"} =>
    /\ Len(turn.calls) >= 3
    /\ turn.calls[1].op = "getTicket"
    /\ turn.calls[2].op = "getTicketNotes"
    /\ turn.calls[3].op = "getTicketConfigurations"
    /\ turn.contextOk <=>
         (turn.fetched.ticket /\ turn.fetched.notes /\ turn.fetched.configurations)
    /\ ~(turn.fetched.ticket /\ turn.fetched.notes /\ turn.fetched.configurations) =>
         /\ turn.outcome = "threw"
         /\ ~turn.formatted
         /\ Len(turn.calls) = 3
         /\ ~HasCall({"chat"})

\* the notes fetch alone failed
C13_Witness ==
  /\ turn.outcome = "threw"
  /\ turn.fetched = [ticket |-> TRUE, notes |-> FALSE, configurations |-> TRUE]
  /\ Len(turn.calls) = 3
  /\ ~turn.formatted

\* C28: the similar tickets of a /similar turn (the company's, followed by
\* the global ones that fill up to 5) hold no ticket id twice, and no
\* ticket's notes are fetched twice in one turn.
C28_SimilarDistinct ==
  /\ \A i, j \in DOMAIN turn.similar :
       i # j => turn.similar[i].id # turn.similar[j].id
  /\ \A i, j \in DOMAIN turn.calls :
       i # j /\ turn.calls[i].op = "getTicketNotes" /\ turn.calls[j].op = "getTicketNotes"
       => turn.calls[i].ticket # turn.calls[j].ticket

\* C29: the first-tier search of a /similar turn is always restricted to the
\* current ticket's company: the searchTickets call made for
\* findSimilarCompanyTickets carries a company/id clause, also when the
\* ticket has no company and processChat passes company id 0.
C29_CompanyClause ==
  turn.command = "/similar" =>
    \A i \in DOMAIN turn.calls :
      turn.calls[i].op = "searchTickets" /\ turn.calls[i].days = CompanyDaysBack
        => turn.calls[i].hasCompany

\* the turn ended in a gateway call that failed
GatewayFailed == turn.outcome = "threw" /\ ~HasCall({"chat"})

\* C15: a /config turn that finds no configuration history (nothing
\* attached, or searches that return at most the current ticket) answers
\* with an explicit message of its own and does not call the AI provider.
C15_NoConfigHistoryNoChat ==
  turn.command = "/config" /\ turn.contextOk /\ ~GatewayFailed
    /\ turn.configTickets = <<>> =>
      /\ ~HasCall({"chat"})
      /\ turn.outcome = "replied"
      /\ turn.message # Completion

\* C14: when processChat fails during a turn, Chat sets error, appends no
\* assistant message, keeps the messages it had, and clears isLoading so
\* that the guard of handleSubmit lets the next turn through.
C14_FailedTurnKeepsConversation ==
  [][ isLoading /\ turn'.outcome = "threw" =>
        /\ error' # Null
        /\ messages' = messages
        /\ ~isLoading'
        /\ isAuthenticated' ]_vars

\* the second turn of a conversation failed at the gateway
C14_Witness ==
  /\ GatewayFailed
  /\ Len(messages) = 3
  /\ messages[2].role = "assistant"
  /\ messages[3].role = "user"
  /\ error = ErrorText
  /\ ~isLoading

\* C20: a rate check of one identity leaves the entry of every other
\* identity as it was; a check that comes after the identity's own
\* resetTime is allowed and gives it count 1 and a window of 60 seconds
\* from now.
C20_PerIdentityWindows ==
  [][ turn'.outcome # "idle" =>
        LET a == turn'.member
        IN /\ \A b \in ChatIdentifiers \ {a} :
                /\ b \in DOMAIN rateLimitMap' <=> b \in DOMAIN rateLimitMap
                /\ b \in DOMAIN rateLimitMap => rateLimitMap'[b] = rateLimitMap[b]
           /\ a \in DOMAIN rateLimitMap /\ now > rateLimitMap[a].resetTime =>
                /\ turn'.outcome # "rateLimited"
                /\ rateLimitMap'[a] = [count |-> 1, resetTime |-> now + 60000] ]_vars

\* m1 has started its second window while anonymous, at its limit, keeps
\* its first
C20_Witness ==
  /\ turn.member = "m1"
  /\ window["m1"].restarted
  /\ "anonymous" \in DOMAIN rateLimitMap
  /\ rateLimitMap["m1"] = [count |-> 1, resetTime |-> now + 60000]
  /\ rateLimitMap["anonymous"].count = RATE_LIMIT
  /\ rateLimitMap["anonymous"].resetTime < rateLimitMap["m1"].resetTime
  /\ rateLimitMap["anonymous"].resetTime >= now

(***************************************************************************)
(* Properties of formatSimilarTicketsWithNotes                             *)
(***************************************************************************)
\* C9: the notes emitted for a ticket number at most 10 and no note id
\* occurs twice among them.
C9_EvidenceCappedAndDistinct ==
  /\ Len(evidence) <= 10
  /\ \A i, j \in DOMAIN evidence : i # j => evidence[i].id # evidence[j].id

\* eleven notes that all qualify were passed: one was left out
C9_Witness ==
  /\ Len(notes) = 11
  /\ \A i \in DOMAIN notes : notes[i].resolutionFlag \/ notes[i].text = ActionText
  /\ Len(evidence) = 10

\* C10: the notes emitted for a ticket are in ascending order of creation
\* time, a note without one counting as earliest.
C10_EvidenceChronological ==
  \A i, j \in DOMAIN evidence :
    i < j => evidence[i].dateCreated <= evidence[j].dateCreated

\* a resolution note that was selected first is emitted last, and a note
\* without creation time first
C10_Witness ==
  /\ Len(evidence) = 2
  /\ evidence[1].dateCreated = 0
  /\ evidence[2].resolutionFlag
  /\ RelevantNotes(notes)[1] = evidence[2]

\* the priority class of the i-th note of a ticket: 1 flagged as
\* resolution, 2 names an action ("Reset it" does, "Presets" does not),
\* 3 one of the earliest two, 4 one of the latest three, 5 none of these
Rank(ns, i) ==
  IF ns[i].resolutionFlag THEN 1
  ELSE IF ns[i].text = ActionText THEN 2
  ELSE IF i <= 2 THEN 3
  ELSE IF i > Len(ns) - 3 THEN 4
  ELSE 5

\* C21: the notes selected for a ticket are taken by priority: flagged
\* resolutions, then action notes, then the earliest two, then the latest
\* three notes, each class in the order of the ticket, no note twice, up to
\* 10 notes: a note is left out only if it is of none of these classes or
\* if 10 notes that come before it in this order were selected.  With 12
\* notes, 1 resolution and 3 action notes, all notes of the four classes are
\* selected.
C21_SelectionPriority ==
  source = "ticket" =>
    LET rank == [i \in DOMAIN notes |-> Rank(notes, i)]
        selected == { evidence[j].id : j \in DOMAIN evidence }
        wanted == { i \in DOMAIN notes : rank[i] <= 4 }
    IN /\ \A j \in DOMAIN evidence : notes[evidence[j].id] = evidence[j]
       /\ Cardinality(selected) = Len(evidence)
       /\ Len(evidence) = IF Cardinality(wanted) < 10 THEN Cardinality(wanted) ELSE 10
       /\ selected \subseteq wanted
       /\ \A i \in wanted \ selected : \A j \in selected :
            rank[j] < rank[i] \/ (rank[j] = rank[i] /\ j < i)
       /\ ( /\ Len(notes) = 12
            /\ Cardinality({ i \in DOMAIN notes : rank[i] = 1 }) = 1
            /\ Cardinality({ i \in DOMAIN notes : rank[i] = 2 }) = 3 )
          => wanted \subseteq selected

\* the ticket of the scenario: 12 notes, the 5th the resolution, the 6th to
\* 8th action notes, a note with "Presets" among the others; 9 are selected
C21_Witness ==
  /\ source = "ticket"
  /\ Len(notes) = 12
  /\ { i \in DOMAIN notes : Rank(notes, i) = 1 } = {5}
  /\ { i \in DOMAIN notes : Rank(notes, i) = 2 } = {6, 7, 8}
  /\ notes[4].text = InWordText
  /\ Len(evidence) = 9
  /\ { evidence[j].id : j \in DOMAIN evidence } = {1, 2, 5, 6, 7, 8, 10, 11, 12}

\* C22: every note is emitted with at most 500 characters of its text, and
\* the marker "..." follows exactly when the emitted text is not the whole
\* trimmed text of the note.
C22_MarkerIffTruncated ==
  \A j \in DOMAIN emitted :
    /\ Len(emitted[j].noteText) <= 500
    /\ emitted[j].marker <=> emitted[j].noteText # Trim(evidence[j].text)

\* C30: Chat invokes processChat only after setAuthCookies has returned
\* without error in the page session: Pod is authenticated only once a
\* setAuthCookies call has returned, a turn is submitted only by a Chat that
\* Pod renders as authenticated, and a setAuthCookies call is made only for
\* an authentication response that passed validation.
C30_CookiesBeforeChat ==
  /\ [](isAuthenticated => cookiesSet)
  /\ [][(isLoading' /\ ~isLoading) => (isAuthenticated /\ cookiesSet)]_vars
  /\ [][turn'.outcome \notin {"idle", turn.outcome} => cookiesSet]_vars
  /\ [][cookiePending' > cookiePending
         => /\ handled'.branch = "auth"
            /\ auth'.memberid \notin {Null, Undefined}
            /\ auth'.memberHash \notin {Null, Undefined}]_vars

\* setAuthCookies has returned, and the turn that the rendered Chat
\* submitted afterwards has been answered
C30_Witness ==
  /\ ChatRendered
  /\ isAuthenticated
  /\ cookiesSet
  /\ Len(messages) = 2
  /\ turn.outcome = "replied"

====
